---- MODULE Spec2Model ----
(***************************************************************************)
(* Model of provstore.document.Document (src/provstore/document.py): a     *)
(* client-side handle on one remote ProvStore document.  The handle is     *)
(* abstract while _id is None and bound otherwise; metadata and content    *)
(* are fetched lazily from the Api collaborator and cached in the handle.  *)
(*                                                                         *)
(* Every method is a pure operator from the handle's fields and the        *)
(* collaborator's answers to a result record                               *)
(*     [d |-> fields afterwards, n |-> BundleManagers constructed so far,  *)
(*      calls |-> collaborator calls issued, out |-> return or raise]      *)
(* and every action applies one method to the handle.                      *)
(***************************************************************************)
EXTENDS Integers, Sequences, FiniteSets, TLC

\* ------------------------------------------------------------------ bounds
MaxId == 1        \* identifiers are 0 .. MaxId
MaxRev == 2       \* revisions of a document's content the server may serve
NumLocal == 1     \* ProvDocument objects the caller may pass to create
MaxAlloc == 2     \* BundleManager objects constructed in one run
NumApi == 2       \* Api sessions a handle may belong to

\* --------------------------------------------------------- Python values
\* A value is [t |-> type, v |-> payload, of |-> document it was served for].
\* "of" is -1 for values that do not come from the server.
NoDoc == 0 - 1

Val(t, v, of) == [t |-> t, v |-> v, of |-> of]

None == Val("None", 0, NoDoc)

PyInt(n) == Val("int", n, NoDoc)

PyBool(b) == Val("bool", IF b THEN 1 ELSE 0, NoDoc)

\* strings are numbered: 0 is the empty string
PyStr(k) == Val("str", k, NoDoc)

SelfRef == Val("Document", 0, NoDoc)

\* the k-th ProvDocument object built by the caller
LocalDoc(k) == Val("ProvDocument", k, NoDoc)

\* raw serialized text handed to create / add_bundle instead of an object
RawText == Val("str", 1, NoDoc)

BundleManager(serial) == Val("BundleManager", serial, NoDoc)

\* Python truth value: None, 0, False and "" are falsy, objects are truthy
Truthy(x) ==
    CASE x.t = "None" -> FALSE
      [] x.t \in {"int", "bool", "str"} -> x.v # 0
      [] OTHER -> TRUE

isinstance(x, cls) == x.t = cls

\* ProvDocument.serialize(): the object's JSON text
serialize(x) == Val("str", x.v, x.of)

\* prov.model.parse_xsd_datetime: a datetime, or None if the text does not parse
\* (text number 0 is unparseable)
parse_xsd_datetime(s) == IF s.v = 0 THEN None ELSE Val("datetime", s.v, s.of)

\* ------------------------------------------------------------- outcomes
Return(x) == [k |-> "return", v |-> x]

Raise(e) == [k |-> "raise", v |-> Val(e, 0, NoDoc)]

Call(f, a) == [f |-> f, a |-> a]

Res(d, n, calls, out) == [d |-> d, n |-> n, calls |-> calls, out |-> out]

\* --------------------------------------------------- the Api collaborator
\* a request that raises instead of answering
Fail == 0 - 1

Ids == 0 .. MaxId

Identifiers == {PyInt(i) : i \in Ids}

\* what a caller may pass for an optional document_id
OptIdentifiers == Identifiers \cup {None}

PostResponses == Ids \cup {Fail}

ProvResponses == (1 .. MaxRev) \cup {Fail}

Ok == 0

DeleteResponses == {Ok, Fail}

MetaDict(nm, pb, ow, ca, vc) ==
    [document_name |-> nm, public |-> pb, owner |-> ow,
     created_at |-> ca, views_count |-> vc]

\* the dictionaries get_document_meta may answer with: every field truthy,
\* every field falsy ("" / False / unparseable date / 0), and two mixtures
MetaDicts ==
    {MetaDict(PyStr(1), PyBool(TRUE), PyStr(2), PyStr(3), PyInt(1)),
     MetaDict(PyStr(0), PyBool(FALSE), PyStr(0), PyStr(0), PyInt(0)),
     MetaDict(PyStr(1), PyBool(FALSE), PyStr(2), PyStr(3), PyInt(0)),
     MetaDict(PyStr(0), PyBool(TRUE), PyStr(0), PyStr(0), PyInt(1))}

NoMeta == [document_name |-> None, public |-> None, owner |-> None,
           created_at |-> None, views_count |-> None]

\* a metadata request that raises
MetaFail == [failed |-> TRUE, dict |-> NoMeta]

MetaResponses == {[failed |-> FALSE, dict |-> m] : m \in MetaDicts} \cup {MetaFail}

ServedFor(x, id) == Val(x.t, x.v, id.v)

\* ------------------------------------------------------ Document.__init__
\* the a-th Api session
Api(a) == Val("Api", a, NoDoc)

Apis == {Api(a) : a \in 1 .. NumApi}

Document(api) ==
    [api |-> api, id |-> None, name |-> None, public |-> None, owner |-> None,
     created_at |-> None, views |-> None, bundles |-> None, prov |-> None]

\* the handle the actions work on belongs to the first Api session
NewDocument == Document(Api(1))

\* ------------------------------------------- Document.__eq__ / __ne__
\* the right-hand side of a comparison: an object of class cls; h holds its
\* fields when it is a Document (and is not looked at otherwise)
Operand(cls, h) == [cls |-> cls, h |-> h]

NoOperand == Operand("none", NewDocument)

eq_whole(d, n, o) ==
    IF ~(o.cls = "Document")
    THEN Res(d, n, <<>>, Return(PyBool(FALSE)))
    ELSE Res(d, n, <<>>, Return(PyBool(d = o.h)))

eq(d, n, o) ==
    IF ~(o.cls = "Document")
    THEN Res(d, n, <<>>, Return(PyBool(FALSE)))
    ELSE Res(d, n, <<>>, Return(PyBool(d.api = o.h.api /\ d.id = o.h.id)))

ne(d, n, o) == Res(d, n, <<>>, Return(PyBool(eq(d, n, o).out.v = PyBool(FALSE))))

abstract(d) == d.id = None

\* ------------------------------------------------------------ Document.set
set_always(d, n, document_id) ==
    Res([d EXCEPT !.id = document_id], n, <<>>, Return(SelfRef))

set(d, n, document_id) ==
    IF ~abstract(d)
    THEN Res(d, n, <<>>, Raise("ImmutableDocumentException"))
    ELSE Res([d EXCEPT !.id = document_id], n, <<>>, Return(SelfRef))

\* ------------------------------------------------------ Document.read_prov
read_prov_unchecked(d, n, document_id, provResp) ==
    LET bound == Truthy(document_id)
        d1 == IF bound THEN [d EXCEPT !.id = document_id] ELSE d
    IN  IF bound /\ ~abstract(d)
        THEN Res(d, n, <<>>, Raise("ImmutableDocumentException"))
        ELSE IF provResp = Fail
        THEN Res(d1, n, <<Call("get_document_prov", d1.id)>>, Raise("ApiError"))
        ELSE LET p == Val("ProvDocument", provResp, d1.id.v)
             IN  Res([d1 EXCEPT !.prov = p], n,
                     <<Call("get_document_prov", d1.id)>>, Return(p))

read_prov(d, n, document_id, provResp) ==
    LET bound == Truthy(document_id)
        d1 == IF bound THEN [d EXCEPT !.id = document_id] ELSE d
    IN  IF bound /\ ~abstract(d)
        THEN Res(d, n, <<>>, Raise("ImmutableDocumentException"))
        ELSE IF abstract(d1)
        THEN Res(d1, n, <<>>, Raise("AbstractDocumentException"))
        ELSE IF provResp = Fail
        THEN Res(d1, n, <<Call("get_document_prov", d1.id)>>, Raise("ApiError"))
        ELSE LET p == Val("ProvDocument", provResp, d1.id.v)
             IN  Res([d1 EXCEPT !.prov = p], n,
                     <<Call("get_document_prov", d1.id)>>, Return(p))

\* ------------------------------------------------------ Document.read_meta
read_meta_keep_bundles(d, n, document_id, metaResp) ==
    LET bound == Truthy(document_id)
        d1 == IF bound THEN [d EXCEPT !.id = document_id] ELSE d
        m == metaResp.dict
    IN  IF bound /\ ~abstract(d)
        THEN Res(d, n, <<>>, Raise("ImmutableDocumentException"))
        ELSE IF abstract(d1)
        THEN Res(d1, n, <<>>, Raise("AbstractDocumentException"))
        ELSE IF metaResp.failed
        THEN Res(d1, n, <<Call("get_document_meta", d1.id)>>, Raise("ApiError"))
        ELSE Res([d1 EXCEPT
                    !.name = ServedFor(m.document_name, d1.id),
                    !.public = ServedFor(m.public, d1.id),
                    !.owner = ServedFor(m.owner, d1.id),
                    !.created_at = parse_xsd_datetime(ServedFor(m.created_at, d1.id)),
                    !.views = ServedFor(m.views_count, d1.id),
                    !.bundles = IF d1.bundles = None THEN BundleManager(n + 1)
                                ELSE d1.bundles],
                 IF d1.bundles = None THEN n + 1 ELSE n,
                 <<Call("get_document_meta", d1.id)>>, Return(SelfRef))

read_meta(d, n, document_id, metaResp) ==
    LET bound == Truthy(document_id)
        d1 == IF bound THEN [d EXCEPT !.id = document_id] ELSE d
        m == metaResp.dict
    IN  IF bound /\ ~abstract(d)
        THEN Res(d, n, <<>>, Raise("ImmutableDocumentException"))
        ELSE IF abstract(d1)
        THEN Res(d1, n, <<>>, Raise("AbstractDocumentException"))
        ELSE IF metaResp.failed
        THEN Res(d1, n, <<Call("get_document_meta", d1.id)>>, Raise("ApiError"))
        ELSE Res([d1 EXCEPT
                    !.name = ServedFor(m.document_name, d1.id),
                    !.public = ServedFor(m.public, d1.id),
                    !.owner = ServedFor(m.owner, d1.id),
                    !.created_at = parse_xsd_datetime(ServedFor(m.created_at, d1.id)),
                    !.views = ServedFor(m.views_count, d1.id),
                    !.bundles = BundleManager(n + 1)],
                 n + 1, <<Call("get_document_meta", d1.id)>>, Return(SelfRef))

\* ----------------------------------------------------------- Document.read
read_meta_first(d, n, document_id, provResp, metaResp) ==
    LET m == read_meta(d, n, document_id, metaResp)
    IN  IF m.out.k = "raise" THEN m
        ELSE LET p == read_prov(m.d, m.n, None, provResp)
             IN  IF p.out.k = "raise"
                 THEN Res(p.d, p.n, m.calls \o p.calls, p.out)
                 ELSE Res(p.d, p.n, m.calls \o p.calls, Return(SelfRef))

read(d, n, document_id, provResp, metaResp) ==
    LET p == read_prov(d, n, document_id, provResp)
    IN  IF p.out.k = "raise" THEN p
        ELSE LET m == read_meta(p.d, p.n, None, metaResp)
             IN  IF m.out.k = "raise"
                 THEN Res(m.d, m.n, p.calls \o m.calls, m.out)
                 ELSE Res(m.d, m.n, p.calls \o m.calls, Return(SelfRef))

\* -------------------------------------------------------- Document.refresh
refresh(d, n, provResp, metaResp) == read(d, n, None, provResp, metaResp)

\* ------------------------------------------------------------ Document.get
get(d, n, document_id, provResp, metaResp) ==
    IF ~abstract(d)
    THEN Res(d, n, <<>>, Raise("ImmutableDocumentException"))
    ELSE read(d, n, document_id, provResp, metaResp)

\* --------------------------------------------------------- Document.create
create_no_cache(d, n, prov_document, refreshArg, postResp, provResp, metaResp) ==
    LET isDoc == isinstance(prov_document, "ProvDocument")
        payload == IF isDoc THEN serialize(prov_document) ELSE prov_document
        post == <<Call("post_document", payload)>>
    IN  IF ~abstract(d)
        THEN Res(d, n, <<>>, Raise("ImmutableDocumentException"))
        ELSE IF postResp = Fail
        THEN Res(d, n, post, Raise("ApiError"))
        ELSE LET d2 == [d EXCEPT !.id = PyInt(postResp)]
             IN  IF refreshArg
                 THEN LET r == refresh(d2, n, provResp, metaResp)
                      IN  Res(r.d, r.n, post \o r.calls, r.out)
                 ELSE Res([d2 EXCEPT !.bundles = BundleManager(n + 1)],
                          n + 1, post, Return(SelfRef))

create_no_refresh(d, n, prov_document, refreshArg, postResp, provResp, metaResp) ==
    LET isDoc == isinstance(prov_document, "ProvDocument")
        d1 == IF isDoc THEN [d EXCEPT !.prov = prov_document] ELSE d
        payload == IF isDoc THEN serialize(prov_document) ELSE prov_document
        post == <<Call("post_document", payload)>>
    IN  IF ~abstract(d)
        THEN Res(d, n, <<>>, Raise("ImmutableDocumentException"))
        ELSE IF postResp = Fail
        THEN Res(d1, n, post, Raise("ApiError"))
        ELSE Res([d1 EXCEPT !.id = PyInt(postResp), !.bundles = BundleManager(n + 1)],
                 n + 1, post, Return(SelfRef))

create(d, n, prov_document, refreshArg, postResp, provResp, metaResp) ==
    LET isDoc == isinstance(prov_document, "ProvDocument")
        d1 == IF isDoc THEN [d EXCEPT !.prov = prov_document] ELSE d
        payload == IF isDoc THEN serialize(prov_document) ELSE prov_document
        post == <<Call("post_document", payload)>>
    IN  IF ~abstract(d)
        THEN Res(d, n, <<>>, Raise("ImmutableDocumentException"))
        ELSE IF postResp = Fail
        THEN Res(d1, n, post, Raise("ApiError"))
        ELSE LET d2 == [d1 EXCEPT !.id = PyInt(postResp)]
             IN  IF refreshArg
                 THEN LET r == refresh(d2, n, provResp, metaResp)
                      IN  Res(r.d, r.n, post \o r.calls, r.out)
                 ELSE Res([d2 EXCEPT !.bundles = BundleManager(n + 1)],
                          n + 1, post, Return(SelfRef))

\* ----------------------------------------------------- Document.add_bundle
add_bundle(d, n, prov_bundle, identifier, addResp) ==
    IF abstract(d)
    THEN Res(d, n, <<>>, Raise("AbstractDocumentException"))
    ELSE IF ~isinstance(prov_bundle, "ProvDocument")
    THEN Res(d, n, <<>>, Raise("AttributeError"))
    ELSE IF addResp = Fail
    THEN Res(d, n, <<Call("add_bundle", d.id)>>, Raise("ApiError"))
    ELSE Res(d, n, <<Call("add_bundle", d.id)>>, Return(None))

\* -------------------------------------------------------- Document.bundles
bundles(d, n) ==
    IF abstract(d)
    THEN Res(d, n, <<>>, Raise("AbstractDocumentException"))
    ELSE Res(d, n, <<>>, Return(d.bundles))

\* --------------------------------------------------------- Document.delete
delete_clear_first(d, n, delResp) ==
    IF abstract(d)
    THEN Res(d, n, <<>>, Raise("AbstractDocumentException"))
    ELSE IF delResp = Fail
    THEN Res([d EXCEPT !.id = None], n,
             <<Call("delete_document", d.id)>>, Raise("ApiError"))
    ELSE Res([d EXCEPT !.id = None], n,
             <<Call("delete_document", d.id)>>, Return(PyBool(TRUE)))

delete(d, n, delResp) ==
    IF abstract(d)
    THEN Res(d, n, <<>>, Raise("AbstractDocumentException"))
    ELSE IF delResp = Fail
    THEN Res(d, n, <<Call("delete_document", d.id)>>, Raise("ApiError"))
    ELSE Res([d EXCEPT !.id = None], n,
             <<Call("delete_document", d.id)>>, Return(PyBool(TRUE)))

\* ----------------------------------------------- Document.id / abstract / url
id(d, n) == Res(d, n, <<>>, Return(d.id))

abstractProperty(d, n) == Res(d, n, <<>>, Return(PyBool(abstract(d))))

\* the text "<site>/documents/<id>", numbered by the identifier
url(d, n) ==
    IF ~abstract(d)
    THEN Res(d, n, <<>>, Return(Val("url", d.id.v, NoDoc)))
    ELSE Res(d, n, <<>>, Return(None))

\* ------------------------------------------------- the metadata properties
\* name, public, owner, created_at and views share one shape: the cached
\* value if truthy, else a metadata read if bound, else EmptyDocumentException
MetaProperty(d, n, field, metaResp) ==
    IF Truthy(d[field])
    THEN Res(d, n, <<>>, Return(d[field]))
    ELSE IF ~abstract(d)
    THEN LET m == read_meta(d, n, None, metaResp)
         IN  IF m.out.k = "raise" THEN m
             ELSE Res(m.d, m.n, m.calls, Return(m.d[field]))
    ELSE Res(d, n, <<>>, Raise("EmptyDocumentException"))

name(d, n, metaResp) == MetaProperty(d, n, "name", metaResp)

public(d, n, metaResp) == MetaProperty(d, n, "public", metaResp)

owner(d, n, metaResp) == MetaProperty(d, n, "owner", metaResp)

created_at(d, n, metaResp) == MetaProperty(d, n, "created_at", metaResp)

views(d, n, metaResp) == MetaProperty(d, n, "views", metaResp)

\* ----------------------------------------------------------- Document.prov
prov(d, n, provResp) ==
    IF Truthy(d.prov)
    THEN Res(d, n, <<>>, Return(d.prov))
    ELSE IF ~abstract(d)
    THEN read_prov(d, n, None, provResp)
    ELSE Res(d, n, <<>>, Raise("EmptyDocumentException"))

\* =================================================================== state
VARIABLES
    doc,      \* the fields of the Document handle
    nalloc,   \* BundleManager objects constructed so far
    op,       \* the last method called on the handle and its arguments
    calls,    \* the collaborator calls that method issued, in order
    out,      \* how it ended: a returned value or a raised exception
    other     \* the object the handle was compared with, if that was the call

vars == <<doc, nalloc, op, calls, out, other>>

Op(nm, arg, flag) == [name |-> nm, arg |-> arg, refresh |-> flag]

Init ==
    /\ doc = NewDocument
    /\ nalloc = 0
    /\ op = Op("__init__", None, FALSE)
    /\ calls = <<>>
    /\ out = Return(SelfRef)
    /\ other = NoOperand

\* Every action below calls one method and lets the handle take its result r
\* (bound by \E over the singleton set of the result, which evaluates it once);
\* a step that would construct more than MaxAlloc BundleManagers is cut off.
\* The collaborator answers only when it is called: an action draws the answer
\* to a request from "all" when the method, run with that request raising,
\* issues it, and otherwise has nothing to draw.
Asks(probe, f) == \E k \in 1 .. Len(probe.calls) : probe.calls[k].f = f

Answers(all, nothing, probe, f) == IF Asks(probe, f) THEN all ELSE {nothing}

CreateArgs == {LocalDoc(k) : k \in 1 .. NumLocal} \cup {RawText}

Create ==
    \E pd \in CreateArgs, rf \in BOOLEAN :
    \E po \in Answers(PostResponses, Fail,
                      create(doc, nalloc, pd, rf, Fail, Fail, MetaFail), "post_document") :
    \E pr \in Answers(ProvResponses, Fail,
                      create(doc, nalloc, pd, rf, po, Fail, MetaFail), "get_document_prov") :
    \E mr \in Answers(MetaResponses, MetaFail,
                      create(doc, nalloc, pd, rf, po, pr, MetaFail), "get_document_meta") :
        \E r \in {create(doc, nalloc, pd, rf, po, pr, mr)} :
            /\ r.n <= MaxAlloc
            /\ doc' = r.d
            /\ nalloc' = r.n
            /\ op' = Op("create", pd, rf)
            /\ calls' = r.calls
            /\ out' = r.out
            /\ other' = NoOperand

Set ==
    \E i \in Identifiers :
        \E r \in {set(doc, nalloc, i)} :
            /\ r.n <= MaxAlloc
            /\ doc' = r.d
            /\ nalloc' = r.n
            /\ op' = Op("set", i, FALSE)
            /\ calls' = r.calls
            /\ out' = r.out
            /\ other' = NoOperand

Get ==
    \E i \in Identifiers :
    \E pr \in Answers(ProvResponses, Fail,
                      get(doc, nalloc, i, Fail, MetaFail), "get_document_prov") :
    \E mr \in Answers(MetaResponses, MetaFail,
                      get(doc, nalloc, i, pr, MetaFail), "get_document_meta") :
        \E r \in {get(doc, nalloc, i, pr, mr)} :
            /\ r.n <= MaxAlloc
            /\ doc' = r.d
            /\ nalloc' = r.n
            /\ op' = Op("get", i, FALSE)
            /\ calls' = r.calls
            /\ out' = r.out
            /\ other' = NoOperand

Read ==
    \E i \in OptIdentifiers :
    \E pr \in Answers(ProvResponses, Fail,
                      read(doc, nalloc, i, Fail, MetaFail), "get_document_prov") :
    \E mr \in Answers(MetaResponses, MetaFail,
                      read(doc, nalloc, i, pr, MetaFail), "get_document_meta") :
        \E r \in {read(doc, nalloc, i, pr, mr)} :
            /\ r.n <= MaxAlloc
            /\ doc' = r.d
            /\ nalloc' = r.n
            /\ op' = Op("read", i, FALSE)
            /\ calls' = r.calls
            /\ out' = r.out
            /\ other' = NoOperand

Refresh ==
    \E pr \in Answers(ProvResponses, Fail,
                      refresh(doc, nalloc, Fail, MetaFail), "get_document_prov") :
    \E mr \in Answers(MetaResponses, MetaFail,
                      refresh(doc, nalloc, pr, MetaFail), "get_document_meta") :
        \E r \in {refresh(doc, nalloc, pr, mr)} :
            /\ r.n <= MaxAlloc
            /\ doc' = r.d
            /\ nalloc' = r.n
            /\ op' = Op("refresh", None, FALSE)
            /\ calls' = r.calls
            /\ out' = r.out
            /\ other' = NoOperand

ReadProv ==
    \E i \in OptIdentifiers :
    \E pr \in Answers(ProvResponses, Fail,
                      read_prov(doc, nalloc, i, Fail), "get_document_prov") :
        \E r \in {read_prov(doc, nalloc, i, pr)} :
            /\ r.n <= MaxAlloc
            /\ doc' = r.d
            /\ nalloc' = r.n
            /\ op' = Op("read_prov", i, FALSE)
            /\ calls' = r.calls
            /\ out' = r.out
            /\ other' = NoOperand

ReadMeta ==
    \E i \in OptIdentifiers :
    \E mr \in Answers(MetaResponses, MetaFail,
                      read_meta(doc, nalloc, i, MetaFail), "get_document_meta") :
        \E r \in {read_meta(doc, nalloc, i, mr)} :
            /\ r.n <= MaxAlloc
            /\ doc' = r.d
            /\ nalloc' = r.n
            /\ op' = Op("read_meta", i, FALSE)
            /\ calls' = r.calls
            /\ out' = r.out
            /\ other' = NoOperand

AddBundle ==
    \E pb \in CreateArgs :
    \E ar \in Answers(DeleteResponses, Fail,
                      add_bundle(doc, nalloc, pb, PyStr(4), Fail), "add_bundle") :
        \E r \in {add_bundle(doc, nalloc, pb, PyStr(4), ar)} :
            /\ r.n <= MaxAlloc
            /\ doc' = r.d
            /\ nalloc' = r.n
            /\ op' = Op("add_bundle", pb, FALSE)
            /\ calls' = r.calls
            /\ out' = r.out
            /\ other' = NoOperand

Bundles ==
    \E r \in {bundles(doc, nalloc)} :
        /\ r.n <= MaxAlloc
        /\ doc' = r.d
        /\ nalloc' = r.n
        /\ op' = Op("bundles", None, FALSE)
        /\ calls' = r.calls
        /\ out' = r.out
        /\ other' = NoOperand

Delete ==
    \E dr \in Answers(DeleteResponses, Fail,
                      delete(doc, nalloc, Fail), "delete_document") :
        \E r \in {delete(doc, nalloc, dr)} :
            /\ r.n <= MaxAlloc
            /\ doc' = r.d
            /\ nalloc' = r.n
            /\ op' = Op("delete", None, FALSE)
            /\ calls' = r.calls
            /\ out' = r.out
            /\ other' = NoOperand

IdProperty ==
    \E r \in {id(doc, nalloc)} :
        /\ r.n <= MaxAlloc
        /\ doc' = r.d
        /\ nalloc' = r.n
        /\ op' = Op("id", None, FALSE)
        /\ calls' = r.calls
        /\ out' = r.out
        /\ other' = NoOperand

AbstractProperty ==
    \E r \in {abstractProperty(doc, nalloc)} :
        /\ r.n <= MaxAlloc
        /\ doc' = r.d
        /\ nalloc' = r.n
        /\ op' = Op("abstract", None, FALSE)
        /\ calls' = r.calls
        /\ out' = r.out
        /\ other' = NoOperand

Url ==
    \E r \in {url(doc, nalloc)} :
        /\ r.n <= MaxAlloc
        /\ doc' = r.d
        /\ nalloc' = r.n
        /\ op' = Op("url", None, FALSE)
        /\ calls' = r.calls
        /\ out' = r.out
        /\ other' = NoOperand

Name ==
    \E mr \in Answers(MetaResponses, MetaFail,
                      name(doc, nalloc, MetaFail), "get_document_meta") :
        \E r \in {name(doc, nalloc, mr)} :
            /\ r.n <= MaxAlloc
            /\ doc' = r.d
            /\ nalloc' = r.n
            /\ op' = Op("name", None, FALSE)
            /\ calls' = r.calls
            /\ out' = r.out
            /\ other' = NoOperand

Public ==
    \E mr \in Answers(MetaResponses, MetaFail,
                      public(doc, nalloc, MetaFail), "get_document_meta") :
        \E r \in {public(doc, nalloc, mr)} :
            /\ r.n <= MaxAlloc
            /\ doc' = r.d
            /\ nalloc' = r.n
            /\ op' = Op("public", None, FALSE)
            /\ calls' = r.calls
            /\ out' = r.out
            /\ other' = NoOperand

Owner ==
    \E mr \in Answers(MetaResponses, MetaFail,
                      owner(doc, nalloc, MetaFail), "get_document_meta") :
        \E r \in {owner(doc, nalloc, mr)} :
            /\ r.n <= MaxAlloc
            /\ doc' = r.d
            /\ nalloc' = r.n
            /\ op' = Op("owner", None, FALSE)
            /\ calls' = r.calls
            /\ out' = r.out
            /\ other' = NoOperand

CreatedAt ==
    \E mr \in Answers(MetaResponses, MetaFail,
                      created_at(doc, nalloc, MetaFail), "get_document_meta") :
        \E r \in {created_at(doc, nalloc, mr)} :
            /\ r.n <= MaxAlloc
            /\ doc' = r.d
            /\ nalloc' = r.n
            /\ op' = Op("created_at", None, FALSE)
            /\ calls' = r.calls
            /\ out' = r.out
            /\ other' = NoOperand

Views ==
    \E mr \in Answers(MetaResponses, MetaFail,
                      views(doc, nalloc, MetaFail), "get_document_meta") :
        \E r \in {views(doc, nalloc, mr)} :
            /\ r.n <= MaxAlloc
            /\ doc' = r.d
            /\ nalloc' = r.n
            /\ op' = Op("views", None, FALSE)
            /\ calls' = r.calls
            /\ out' = r.out
            /\ other' = NoOperand

Prov ==
    \E pr \in Answers(ProvResponses, Fail,
                      prov(doc, nalloc, Fail), "get_document_prov") :
        \E r \in {prov(doc, nalloc, pr)} :
            /\ r.n <= MaxAlloc
            /\ doc' = r.d
            /\ nalloc' = r.n
            /\ op' = Op("prov", None, FALSE)
            /\ calls' = r.calls
            /\ out' = r.out
            /\ other' = NoOperand

Next ==
    \/ Create \/ Set \/ Get \/ Read \/ Refresh \/ ReadProv \/ ReadMeta
    \/ AddBundle \/ Bundles \/ Delete
    \/ IdProperty \/ AbstractProperty \/ Url
    \/ Name \/ Public \/ Owner \/ CreatedAt \/ Views \/ Prov

Spec == Init /\ [][Next]_vars

\* ------------------------------------------------------------ comparisons
\* Other Document instances a handle may be compared with: for every Api
\* session a new handle, one bound by set, one bound and loaded by get and
\* one deleted after get.
FirstRev == 1

FirstMeta ==
    [failed |-> FALSE,
     dict |-> MetaDict(PyStr(1), PyBool(TRUE), PyStr(2), PyStr(3), PyInt(1))]

OtherHandles ==
    UNION {LET fresh == Document(a)
           IN  {fresh}
                 \cup {set(fresh, 0, i).d : i \in Identifiers}
                 \cup {get(fresh, 0, i, FirstRev, FirstMeta).d : i \in Identifiers}
                 \cup {delete(get(fresh, 0, i, FirstRev, FirstMeta).d, 1, Ok).d :
                          i \in Identifiers}
           : a \in Apis}

Operands ==
    {Operand("Document", h) : h \in OtherHandles} \cup {Operand("int", NewDocument)}

Eq ==
    \E o \in Operands :
        \E r \in {eq(doc, nalloc, o)} :
            /\ r.n <= MaxAlloc
            /\ doc' = r.d
            /\ nalloc' = r.n
            /\ op' = Op("__eq__", None, FALSE)
            /\ calls' = r.calls
            /\ out' = r.out
            /\ other' = o

Ne ==
    \E o \in Operands :
        \E r \in {ne(doc, nalloc, o)} :
            /\ r.n <= MaxAlloc
            /\ doc' = r.d
            /\ nalloc' = r.n
            /\ op' = Op("__ne__", None, FALSE)
            /\ calls' = r.calls
            /\ out' = r.out
            /\ other' = o

\* one handle that is bound, loaded and deleted, and compared with others
NextEq == Create \/ Set \/ Get \/ Delete \/ Eq \/ Ne

SpecEq == Init /\ [][NextEq]_vars

\* ================================================================== claims
Immutable == Raise("ImmutableDocumentException")

IsPrefix(s, t) == Len(s) <= Len(t) /\ s = SubSeq(t, 1, Len(s))

\* C1 (bind-once): once the identifier is set no operation changes it to a
\* different value; the only step out of the bound state is delete, which
\* sets the identifier back to None.
C1_BindOnce ==
    [][doc.id # None =>
         \/ doc'.id = doc.id
         \/ (op'.name = "delete" /\ doc'.id = None)]_vars

\* a rebinding attempt on a bound handle was refused
C1_Witness ==
    /\ doc.id # None
    /\ op.name \in {"set", "get", "read", "read_prov", "read_meta", "create"}
    /\ out = Immutable

CacheEmpty(d) ==
    /\ d.name = None /\ d.public = None /\ d.owner = None
    /\ d.created_at = None /\ d.views = None /\ d.prov = None

RaisesAbstractOrEmpty(r) ==
    /\ r.out.k = "raise"
    /\ r.out.v.t \in {"AbstractDocumentException", "EmptyDocumentException"}

\* C3 (as claimed): on every reachable abstract handle each of name, public,
\* owner, created_at, views, prov, bundles, add_bundle and delete raises an
\* abstract-handle or empty-handle error instead of returning a value.
C3_AbstractAlwaysRaises ==
    abstract(doc) =>
        /\ \A mr \in MetaResponses :
             /\ RaisesAbstractOrEmpty(name(doc, nalloc, mr))
             /\ RaisesAbstractOrEmpty(public(doc, nalloc, mr))
             /\ RaisesAbstractOrEmpty(owner(doc, nalloc, mr))
             /\ RaisesAbstractOrEmpty(created_at(doc, nalloc, mr))
             /\ RaisesAbstractOrEmpty(views(doc, nalloc, mr))
        /\ \A pr \in ProvResponses : RaisesAbstractOrEmpty(prov(doc, nalloc, pr))
        /\ RaisesAbstractOrEmpty(bundles(doc, nalloc))
        /\ \A pb \in CreateArgs, ar \in DeleteResponses :
             RaisesAbstractOrEmpty(add_bundle(doc, nalloc, pb, PyStr(4), ar))
        /\ \A dr \in DeleteResponses : RaisesAbstractOrEmpty(delete(doc, nalloc, dr))

\* C4 (as claimed): a delete() that returns on a bound handle has called
\* delete_document for the bound identifier, returns True, clears the
\* identifier and leaves every cached field unset, as in a new handle.
C4_DeleteResetsHandle ==
    [][(doc.id # None /\ op'.name = "delete" /\ out'.k = "return") =>
         /\ calls' = <<Call("delete_document", doc.id)>>
         /\ out' = Return(PyBool(TRUE))
         /\ doc'.id = None
         /\ CacheEmpty(doc')]_vars

\* C5 (as claimed): after set(identifier) on an abstract handle the first prov
\* access issues exactly one get_document_prov call for that identifier and
\* caches what it returns; a prov access right after a prov access that
\* returned issues no call and returns the same cached value.
C5_ContentFetchedOnce ==
    [][/\ (op.name = "set" /\ out.k = "return" /\ op'.name = "prov") =>
            /\ calls' = <<Call("get_document_prov", doc.id)>>
            /\ (out'.k = "return" => doc'.prov = out'.v)
       /\ (op.name = "prov" /\ out.k = "return" /\ op'.name = "prov") =>
            /\ calls' = <<>>
            /\ out' = out
            /\ doc' = doc]_vars

MetaAccessors == {"name", "public", "owner", "created_at", "views"}

\* C6 (as claimed): once a get_document_meta call has populated the metadata
\* fields of a bound handle, an access to name, public, owner, created_at or
\* views returns the cached value and issues no get_document_meta call,
\* whatever value the server gave the field.
C6_MetadataCached ==
    [][(/\ doc.id # None
        /\ out.k = "return"
        /\ Len(calls) > 0
        /\ calls[Len(calls)] = Call("get_document_meta", doc.id)
        /\ op'.name \in MetaAccessors)
         => (calls' = <<>> /\ out' = Return(doc[op'.name]))]_vars

\* the content get_document_prov serves for identifier i at revision rev
ServedProv(i, rev) == Val("ProvDocument", rev, i.v)

\* the handle's fields hold exactly what the two fetches returned for i
HoldsFetched(d, i, rev, m) ==
    /\ d.prov = ServedProv(i, rev)
    /\ d.name = Val("str", m.document_name.v, i.v)
    /\ d.public = Val("bool", m.public.v, i.v)
    /\ d.owner = Val("str", m.owner.v, i.v)
    /\ d.created_at = IF m.created_at.v = 0 THEN None
                      ELSE Val("datetime", m.created_at.v, i.v)
    /\ d.views = Val("int", m.views_count.v, i.v)

\* C7: refresh() on a bound handle, whatever is cached, asks for the content
\* and then for the metadata of the bound identifier, once each and in that
\* order (stopping at the first request that raises); when it returns, every
\* cached field holds the fetched value, the identifier is unchanged and the
\* returned value is the handle itself.
C7_RefreshRefetchesBoth ==
    doc.id # None =>
        \A pr \in ProvResponses, mr \in MetaResponses :
            LET r == refresh(doc, nalloc, pr, mr)
                both == <<Call("get_document_prov", doc.id),
                          Call("get_document_meta", doc.id)>>
            IN  /\ r.d.id = doc.id
                /\ Len(r.calls) >= 1
                /\ IsPrefix(r.calls, both)
                /\ (pr # Fail /\ ~mr.failed) =>
                     /\ r.calls = both
                     /\ r.out = Return(SelfRef)
                     /\ HoldsFetched(r.d, doc.id, pr, mr.dict)
                     /\ r.d.bundles = BundleManager(nalloc + 1)

\* refresh() returned on a handle whose content and name were already cached
C7_Witness ==
    /\ op.name = "refresh"
    /\ out = Return(SelfRef)
    /\ calls = <<Call("get_document_prov", doc.id), Call("get_document_meta", doc.id)>>
    /\ nalloc >= 2

\* C8 (as claimed): on an abstract handle get(identifier) and
\* set(identifier) followed by read() end the same way, issue the same
\* collaborator calls and leave the same handle, for every identifier.
C8_GetIsSetThenRead ==
    abstract(doc) =>
        \A i \in Identifiers, pr \in ProvResponses, mr \in MetaResponses :
            LET g == get(doc, nalloc, i, pr, mr)
                s == set(doc, nalloc, i)
                r == read(s.d, s.n, None, pr, mr)
            IN  /\ g.out = r.out
                /\ g.calls = s.calls \o r.calls
                /\ g.d = r.d
                /\ g.n = r.n

\* C9: create(docObj, refresh=False) on an abstract handle, when post_document
\* answers, binds the handle to the identifier post_document returned and
\* gives it a newly constructed BundleManager; the prov access that follows
\* returns the supplied object and issues no get_document_prov call.
C9_CreateKeepsLocalObject ==
    abstract(doc) =>
        \A k \in 1 .. NumLocal, po \in Ids, pr \in ProvResponses :
            LET c == create(doc, nalloc, LocalDoc(k), FALSE, po, pr, MetaFail)
                a == prov(c.d, c.n, pr)
            IN  /\ c.out = Return(SelfRef)
                /\ c.d.id = PyInt(po)
                /\ c.n = nalloc + 1
                /\ c.d.bundles = BundleManager(nalloc + 1)
                /\ c.d.bundles # doc.bundles
                /\ a.out = Return(LocalDoc(k))
                /\ a.calls = <<>>

\* a prov access right after such a create returned the supplied object
C9_Witness ==
    /\ op.name = "prov"
    /\ calls = <<>>
    /\ doc.id # None
    /\ out.k = "return"
    /\ out.v \in {LocalDoc(k) : k \in 1 .. NumLocal}
    /\ doc.bundles # None
    /\ doc.name = None

\* C10: create(docObj, refresh=True) on an abstract handle calls
\* post_document, get_document_prov and get_document_meta in that order
\* (stopping at the first that raises), the two fetches being for the new
\* identifier; when it returns, the cached content is what get_document_prov
\* returned and not the supplied object.
C10_CreateRefreshOrder ==
    abstract(doc) =>
        \A k \in 1 .. NumLocal, po \in PostResponses,
           pr \in ProvResponses, mr \in MetaResponses :
            LET c == create(doc, nalloc, LocalDoc(k), TRUE, po, pr, mr)
                all == <<Call("post_document", Val("str", k, NoDoc)),
                         Call("get_document_prov", PyInt(po)),
                         Call("get_document_meta", PyInt(po))>>
            IN  /\ IsPrefix(c.calls, all)
                /\ (po # Fail /\ pr # Fail /\ ~mr.failed) =>
                     /\ c.calls = all
                     /\ c.out = Return(SelfRef)
                     /\ c.d.id = PyInt(po)
                     /\ c.d.prov = ServedProv(PyInt(po), pr)
                     /\ c.d.prov # LocalDoc(k)

\* create(docObj, refresh=True) returned with the server's copy cached
C10_Witness ==
    /\ op.name = "create"
    /\ op.refresh
    /\ isinstance(op.arg, "ProvDocument")
    /\ out = Return(SelfRef)
    /\ Len(calls) = 3
    /\ doc.prov.of = doc.id.v

\* C11 (as claimed): set(identifier) on any abstract handle, new or reached
\* after a delete, issues no collaborator call and leaves the handle bound to
\* that identifier with none of name, public, owner, created_at, views and
\* content cached.
C11_SetLeavesCacheEmpty ==
    abstract(doc) =>
        \A i \in Identifiers :
            LET r == set(doc, nalloc, i)
            IN  /\ r.out = Return(SelfRef)
                /\ r.calls = <<>>
                /\ r.d.id = i
                /\ CacheEmpty(r.d)

\* C12 (as claimed): on a bound handle, when a metadata accessor finds its
\* field not cached and the metadata fetch it triggers leaves the field
\* absent, the accessor raises EmptyDocumentException instead of returning
\* an absent value.
C12_EmptyFieldRaises ==
    doc.id # None =>
        \A f \in MetaAccessors, mr \in MetaResponses :
            LET r == MetaProperty(doc, nalloc, f, mr)
            IN  (/\ ~Truthy(doc[f])
                 /\ ~mr.failed
                 /\ r.d[f] = None)
                  => r.out = Raise("EmptyDocumentException")

\* the last collaborator call of the step was a metadata fetch that answered
MetaFetched(cs, o) ==
    /\ Len(cs) > 0
    /\ cs[Len(cs)].f = "get_document_meta"
    /\ o.k = "return"

\* C13: every step in which a metadata fetch answers (read_meta, read,
\* refresh, get, create with refresh, or a metadata accessor that fetches)
\* replaces the bundle collection by a newly constructed BundleManager, and
\* the bundles accessor raises AbstractDocumentException whenever the handle
\* is abstract.
C13_BundlesRebuiltOnMetaFetch ==
    [][/\ MetaFetched(calls', out') =>
            /\ nalloc' = nalloc + 1
            /\ doc'.bundles = BundleManager(nalloc')
            /\ doc'.bundles # doc.bundles
       /\ (op'.name = "bundles" /\ abstract(doc)) =>
            out' = Raise("AbstractDocumentException")]_vars

\* a metadata fetch replaced a BundleManager the handle already had
C13_Witness ==
    /\ MetaFetched(calls, out)
    /\ op.name \in {"read_meta", "read", "refresh"} \cup MetaAccessors
    /\ doc.bundles = BundleManager(2)

C15_AbstractHandlesUnequal ==
    abstract(doc) =>
        \A h \in OtherHandles :
            abstract(h) =>
                eq(doc, nalloc, Operand("Document", h)).out = Return(PyBool(FALSE))

\* the method raised AbstractDocumentException, asked the collaborator
\* nothing and left the handle as it was
RefusedAsAbstract(r) ==
    /\ r.out = Raise("AbstractDocumentException")
    /\ r.calls = <<>>
    /\ r.d = doc
    /\ r.n = nalloc

\* C16: read(), refresh(), read_prov() and read_meta() called without an
\* identifier on an abstract handle raise AbstractDocumentException, issue no
\* collaborator call and leave the identifier and every cached field as they
\* were.
C16_AbstractReadRefused ==
    abstract(doc) =>
        \A pr \in ProvResponses, mr \in MetaResponses :
            /\ RefusedAsAbstract(read(doc, nalloc, None, pr, mr))
            /\ RefusedAsAbstract(refresh(doc, nalloc, pr, mr))
            /\ RefusedAsAbstract(read_prov(doc, nalloc, None, pr))
            /\ RefusedAsAbstract(read_meta(doc, nalloc, None, mr))

\* a read without identifier was refused on an abstract handle that still
\* holds cached fields
C16_Witness ==
    /\ op.name \in {"read", "refresh", "read_prov", "read_meta"}
    /\ op.arg = None
    /\ out = Raise("AbstractDocumentException")
    /\ abstract(doc)
    /\ doc.name # None
    /\ doc.prov # None

CachedFields == {"name", "public", "owner", "created_at", "views", "prov"}

\* C17 (as claimed): on a bound handle every populated cached field holds
\* data of the bound identifier: a value the collaborator served for that
\* identifier, or, for the content, an object the caller supplied to create.
C17_CacheBelongsToBoundId ==
    doc.id # None =>
        \A f \in CachedFields :
            doc[f] # None =>
                \/ doc[f].of = doc.id.v
                \/ (f = "prov" /\ doc[f].of = NoDoc)

\* C18 (as claimed): on every bound handle the bundles accessor returns a
\* bundle collection, never None.
C18_BoundHasBundles ==
    doc.id # None =>
        LET r == bundles(doc, nalloc)
        IN  r.out.k = "return" /\ r.out.v.t = "BundleManager"

\* C19 (as claimed): when a fetch raises during get(identifier) or
\* read(identifier) on an abstract handle, the handle is abstract afterwards.
C19_FailedBindStaysAbstract ==
    abstract(doc) =>
        \A i \in Identifiers, pr \in ProvResponses, mr \in MetaResponses :
            /\ LET r == get(doc, nalloc, i, pr, mr)
               IN  r.out = Raise("ApiError") => abstract(r.d)
            /\ LET r == read(doc, nalloc, i, pr, mr)
               IN  r.out = Raise("ApiError") => abstract(r.d)

\* C20: delete() clears the identifier only once delete_document has
\* returned: when delete_document raises, the error reaches the caller and the
\* handle keeps its identifier and every cached field; when it returns, the
\* identifier is cleared.
C20_DeleteClearsAfterCall ==
    doc.id # None =>
        /\ LET r == delete(doc, nalloc, Fail)
           IN  /\ r.out = Raise("ApiError")
               /\ r.calls = <<Call("delete_document", doc.id)>>
               /\ r.d = doc
        /\ LET r == delete(doc, nalloc, Ok)
           IN  /\ r.out = Return(PyBool(TRUE))
               /\ r.calls = <<Call("delete_document", doc.id)>>
               /\ r.d.id = None

\* a delete whose delete_document raised left a loaded handle bound
C20_Witness ==
    /\ op.name = "delete"
    /\ out = Raise("ApiError")
    /\ calls = <<Call("delete_document", doc.id)>>
    /\ doc.id # None
    /\ doc.prov # None

====
